---- MODULE Spec2Model ----
(***************************************************************************)
(* Model of the JWT + MySQL notes backend (src/lib/service/main.py).       *)
(*                                                                         *)
(* State: the two tables (users, notes), the AUTO_INCREMENT counter of     *)
(* notes, the wall clock, the token a client keeps from a login, and, for  *)
(* every execution context that serves requests, the position of the       *)
(* request it is serving together with the handler's local variables.      *)
(*                                                                         *)
(* Every SQL round trip of a handler is one atomic step, so two requests   *)
(* interleave exactly at the statements the code sends to the database.    *)
(* A statement reads the rows committed at the moment it runs.  An input   *)
(* of a request that one statement alone reads is drawn at that statement. *)
(***************************************************************************)
EXTENDS Integers, Sequences, FiniteSets, TLC

VARIABLES users, notes, nextNoteId, now, kept, served, pc, route, sess, creds, user, payload, note_id, note, resp

vars == <<users, notes, nextNoteId, now, kept, served, pc, route, sess, creds, user, payload, note_id, note, resp>>

(***************************************************************************)
(* Bounds of the model and the sets the inputs are drawn from.             *)
(***************************************************************************)
MaxNoteId == 2
MaxTime == 61
MaxRequests == 3

Workers == {"w1", "w2"}
Emails == {"a@x.com", "b@x.com"}
Passwords == {"secret1", "secret2"}
Titles == {"t", "t2"}
Contents == {"c", "c2"}
NoteIds == 1..MaxNoteId

(***************************************************************************)
(* Program constants.                                                      *)
(***************************************************************************)
SECRET_KEY == "JWT_SECRET"
ACCESS_TOKEN_EXPIRE_MINUTES == 60

\* Time passes between two steps by a token lifetime, or by a minute more.
ClockSteps == {ACCESS_TOKEN_EXPIRE_MINUTES, ACCESS_TOKEN_EXPIRE_MINUTES + 1}

Routes == {"register", "login", "list_notes", "create_note", "update_note", "delete_note"}
Protected == {"list_notes", "create_note", "update_note", "delete_note"}

(***************************************************************************)
(* Values.                                                                 *)
(***************************************************************************)
NoUser == [id |-> 0, email |-> "", password_hash |-> <<>>, created_at |-> 0]
NoNote == [id |-> 0, owner_email |-> "", title |-> "", content |-> "", created_at |-> 0]
NoCreds == [fmt |-> "", sub |-> "", exp |-> 0, key |-> ""]
NoResp == [status |-> 0, detail |-> ""]
NoPayload == [email |-> "", password |-> "", title |-> "", content |-> ""]

HTTPException(code, text) == [status |-> code, detail |-> text]
ServerError == [status |-> 500, detail |-> "Internal Server Error"]

\* NoteOut: the response model keeps id, title, content and created_at.
NoteOut(n) == [id |-> n.id, title |-> n.title, content |-> n.content, created_at |-> n.created_at]

(***************************************************************************)
(* Credential hasher.  The hash is not the password: it is a tagged value  *)
(* that only verify_password relates back to the password.                 *)
(***************************************************************************)
hash_password(password) == <<"argon2", password>>

\* Mutant: a verifier that accepts any password.
verify_password_Any(password, password_hash) == password_hash # <<>>

verify_password(password, password_hash) == password_hash = <<"argon2", password>>

(***************************************************************************)
(* Token service.  A token is its claims and the key that signed it.       *)
(***************************************************************************)
create_access_token(subject_email, t) ==
    [fmt |-> "jwt", sub |-> subject_email, exp |-> t + ACCESS_TOKEN_EXPIRE_MINUTES, key |-> SECRET_KEY]

\* Mutant: the signature is not verified.
decode_token_Unverified(token, t) ==
    IF token.fmt # "jwt" \/ token.exp < t
    THEN [ok |-> FALSE, email |-> "", error |-> [status |-> 401, detail |-> "Invalid or expired token"]]
    ELSE IF token.sub = ""
    THEN [ok |-> FALSE, email |-> "", error |-> [status |-> 401, detail |-> "Invalid token"]]
    ELSE [ok |-> TRUE, email |-> token.sub, error |-> NoResp]

\* Mutant: a token is refused from its expiry on, not after it (exp <= now).
decode_token_EarlyExpiry(token, t) ==
    IF token.fmt # "jwt" \/ token.key # SECRET_KEY \/ token.exp <= t
    THEN [ok |-> FALSE, email |-> "", error |-> [status |-> 401, detail |-> "Invalid or expired token"]]
    ELSE IF token.sub = ""
    THEN [ok |-> FALSE, email |-> "", error |-> [status |-> 401, detail |-> "Invalid token"]]
    ELSE [ok |-> TRUE, email |-> token.sub, error |-> NoResp]

\* jwt.decode raises JWTError for a malformed token, a wrong signature or an
\* expiry in the past (exp < now); a missing or empty sub raises "Invalid token".
decode_token(token, t) ==
    IF token.fmt # "jwt" \/ token.key # SECRET_KEY \/ token.exp < t
    THEN [ok |-> FALSE, email |-> "", error |-> HTTPException(401, "Invalid or expired token")]
    ELSE IF token.sub = ""
    THEN [ok |-> FALSE, email |-> "", error |-> HTTPException(401, "Invalid token")]
    ELSE [ok |-> TRUE, email |-> token.sub, error |-> NoResp]

(***************************************************************************)
(* Queries.                                                                *)
(***************************************************************************)
\* db.query(User).filter(User.email == email).first()
FindUser(email) ==
    LET rows == {u \in users : u.email = email}
    IN IF rows = {} THEN NoUser
       ELSE CHOOSE u \in rows : \A v \in rows : u.id <= v.id

\* Mutant: the owner filter is missing.
FindNote_AnyOwner(id, email) ==
    LET rows == {n \in notes : n.id = id}
    IN IF rows = {} THEN NoNote ELSE CHOOSE n \in rows : TRUE

\* db.query(Note).filter(Note.id == note_id, Note.owner_email == email).first()
FindNote(id, email) ==
    LET rows == {n \in notes : n.id = id /\ n.owner_email = email}
    IN IF rows = {} THEN NoNote ELSE CHOOSE n \in rows : TRUE

RECURSIVE OrderByIdDesc(_)
OrderByIdDesc(rows) ==
    IF rows = {} THEN <<>>
    ELSE LET top == CHOOSE n \in rows : \A m \in rows : m.id <= n.id
         IN <<top>> \o OrderByIdDesc(rows \ {top})

\* Mutant: the owner filter is missing.
ListForOwner_Unfiltered(email) == OrderByIdDesc(notes)

\* db.query(Note).filter(Note.owner_email == email).order_by(Note.id.desc()).all()
ListForOwner(email) == OrderByIdDesc({n \in notes : n.owner_email = email})

NextUserId == Cardinality(users) + 1

(***************************************************************************)
(* Initial state: no request in flight.  The tables live in MySQL and      *)
(* create_all only creates the missing ones, so the process starts on      *)
(* whatever accounts earlier runs registered: none, one or two here.       *)
(***************************************************************************)
Account(i, email, password) ==
    [id |-> i, email |-> email, password_hash |-> hash_password(password), created_at |-> 0]

InitialUsers ==
    {{},
     {Account(1, "a@x.com", "secret1")},
     {Account(1, "a@x.com", "secret1"), Account(2, "b@x.com", "secret2")}}

Init ==
    /\ users \in InitialUsers
    /\ notes = {}
    /\ nextNoteId = 1
    /\ now = 0
    /\ served = 0
    /\ kept = NoCreds
    /\ pc = [w \in Workers |-> "idle"]
    /\ route = [w \in Workers |-> ""]
    /\ sess = [w \in Workers |-> "closed"]
    /\ creds = [w \in Workers |-> NoCreds]
    /\ user = [w \in Workers |-> NoUser]
    /\ payload = [w \in Workers |-> NoPayload]
    /\ note_id = [w \in Workers |-> 0]
    /\ note = [w \in Workers |-> NoNote]
    /\ resp = [w \in Workers |-> NoResp]

(***************************************************************************)
(* Bearer tokens a client can present at time t without having logged in:  *)
(* garbage, a token without subject, a token signed with another key, one  *)
(* that expired a minute ago, and for every email the token the service    *)
(* would sign for it right now.                                            *)
(***************************************************************************)
Garbage == [fmt |-> "garbage", sub |-> "", exp |-> 0, key |-> ""]

BearerInputs(t) ==
    {Garbage,
     create_access_token("", t),
     [create_access_token("a@x.com", t) EXCEPT !.key = "other"],
     create_access_token("a@x.com", t - ACCESS_TOKEN_EXPIRE_MINUTES - 1)}
    \cup {create_access_token(e, t) : e \in Emails}

\* The token the client kept from its last login, or garbage when it has none.
KeptInputs == IF kept = NoCreds THEN {Garbage} ELSE {kept}

\* Requests admitted to POST /notes and not yet past their INSERT.
CreatesInFlight ==
    Cardinality({w \in Workers : route[w] = "create_note"
                                 /\ pc[w] \in {"require_user", "create_note"}})

(***************************************************************************)
(* get_db, up to the yield: a request for one of `routes` arrives on an    *)
(* idle execution context and SessionLocal() opens its session.  Protected *)
(* routes carry one of `tokens` and go through require_user first.         *)
(***************************************************************************)
OpenSession(w, routes, tokens) ==
    /\ pc[w] = "idle"
    /\ served < MaxRequests
    /\ served' = served + 1
    /\ \E r \in routes :
         /\ r = "create_note" => nextNoteId + CreatesInFlight <= MaxNoteId
         /\ route' = [route EXCEPT ![w] = r]
         /\ pc' = [pc EXCEPT ![w] = IF r \in Protected THEN "require_user" ELSE r]
         /\ IF r \in Protected
            THEN \E token \in tokens : creds' = [creds EXCEPT ![w] = token]
            ELSE creds' = creds
    /\ sess' = [sess EXCEPT ![w] = "open"]
    /\ resp' = [resp EXCEPT ![w] = NoResp]
    /\ UNCHANGED <<users, notes, nextNoteId, now, kept, user, note_id, note, payload>>

GetDb(w) == OpenSession(w, Routes, BearerInputs(now))

\* The same, for a client that registers, logs in and lists with the token it kept.
GetDbKept(w) == OpenSession(w, {"register", "login", "list_notes"}, KeptInputs)

(***************************************************************************)
(* get_db, after the yield (the finally block): the response leaves, the   *)
(* session is closed and the handler's locals are gone.  resp[w] stays as  *)
(* the response the client received, until the next request arrives.       *)
(***************************************************************************)
\* Mutant: db.close() after the yield without try/finally: skipped when the
\* request raised an error that is no HTTPException.
CloseSession_NoFinally(w, token) ==
    /\ pc[w] = "respond"
    /\ sess' = [sess EXCEPT ![w] = IF resp[w].status = 500 THEN "open" ELSE "closed"]
    /\ kept' = token
    /\ pc' = [pc EXCEPT ![w] = "idle"]
    /\ route' = [route EXCEPT ![w] = ""]
    /\ creds' = [creds EXCEPT ![w] = NoCreds]
    /\ user' = [user EXCEPT ![w] = NoUser]
    /\ payload' = [payload EXCEPT ![w] = NoPayload]
    /\ note_id' = [note_id EXCEPT ![w] = 0]
    /\ note' = [note EXCEPT ![w] = NoNote]
    /\ UNCHANGED <<users, notes, nextNoteId, now, served, resp>>

CloseSession(w, token) ==
    /\ pc[w] = "respond"
    /\ sess' = [sess EXCEPT ![w] = "closed"]
    /\ kept' = token
    /\ pc' = [pc EXCEPT ![w] = "idle"]
    /\ route' = [route EXCEPT ![w] = ""]
    /\ creds' = [creds EXCEPT ![w] = NoCreds]
    /\ user' = [user EXCEPT ![w] = NoUser]
    /\ payload' = [payload EXCEPT ![w] = NoPayload]
    /\ note_id' = [note_id EXCEPT ![w] = 0]
    /\ note' = [note EXCEPT ![w] = NoNote]
    /\ UNCHANGED <<users, notes, nextNoteId, now, served, resp>>

Close(w) == CloseSession(w, kept)

\* The same, for a client that keeps the token of a successful login.
CloseKept(w) ==
    CloseSession(w, IF route[w] = "login" /\ resp[w].status = 200
                    THEN resp[w].access_token ELSE kept)

\* A handler or dependency ends the request with response r.
Finish(w, r) ==
    /\ resp' = [resp EXCEPT ![w] = r]
    /\ pc' = [pc EXCEPT ![w] = "respond"]

(***************************************************************************)
(* require_user: decode the bearer token, then look the subject up.        *)
(***************************************************************************)
\* Mutant: the decoded subject is trusted without the lookup in users.
RequireUser_NoLookup(w) ==
    /\ pc[w] = "require_user"
    /\ LET d == decode_token(creds[w], now)
       IN IF ~d.ok
          THEN Finish(w, d.error) /\ user' = user
          ELSE /\ user' = [user EXCEPT ![w] = [NoUser EXCEPT !.email = d.email]]
               /\ pc' = [pc EXCEPT ![w] = route[w]]
               /\ resp' = resp
    /\ UNCHANGED <<users, notes, nextNoteId, now, kept, served, route, sess, creds, note_id, note, payload>>

RequireUser(w) ==
    /\ pc[w] = "require_user"
    /\ LET d == decode_token(creds[w], now)
           u == FindUser(d.email)
       IN IF ~d.ok
          THEN Finish(w, d.error) /\ user' = user
          ELSE IF u = NoUser
          THEN Finish(w, HTTPException(401, "User not found")) /\ user' = user
          ELSE /\ user' = [user EXCEPT ![w] = u]
               /\ pc' = [pc EXCEPT ![w] = route[w]]
               /\ resp' = resp
    /\ UNCHANGED <<users, notes, nextNoteId, now, kept, served, route, sess, creds, note_id, note, payload>>

(***************************************************************************)
(* POST /register: the lookup, then the INSERT and COMMIT.  The unique     *)
(* index on users.email rejects the INSERT of a second row for an email;   *)
(* the handler does not catch that error.                                  *)
(***************************************************************************)
\* Mutant: no lookup before the INSERT.
Register_NoLookup(w) ==
    /\ pc[w] = "register"
    /\ \E email \in Emails, password \in Passwords :
         /\ payload' = [payload EXCEPT ![w] = [NoPayload EXCEPT !.email = email, !.password = password]]
         /\ user' = [user EXCEPT ![w] = [NoUser EXCEPT !.email = email,
                                         !.password_hash = hash_password(password)]]
    /\ pc' = [pc EXCEPT ![w] = "register_commit"]
    /\ UNCHANGED <<users, notes, nextNoteId, now, kept, served, route, sess, creds, note_id, note, resp>>

Register(w) ==
    /\ pc[w] = "register"
    /\ \E email \in Emails, password \in Passwords :
         /\ payload' = [payload EXCEPT ![w] = [NoPayload EXCEPT !.email = email, !.password = password]]
         /\ IF FindUser(email) # NoUser
            THEN Finish(w, HTTPException(409, "Email already registered")) /\ user' = user
            ELSE /\ user' = [user EXCEPT ![w] = [NoUser EXCEPT !.email = email,
                                                 !.password_hash = hash_password(password)]]
                 /\ pc' = [pc EXCEPT ![w] = "register_commit"]
                 /\ resp' = resp
    /\ UNCHANGED <<users, notes, nextNoteId, now, kept, served, route, sess, creds, note_id, note>>

RegisterCommit(w) ==
    /\ pc[w] = "register_commit"
    /\ IF \E u \in users : u.email = user[w].email
       THEN Finish(w, ServerError) /\ users' = users
       ELSE /\ users' = users \cup {[user[w] EXCEPT !.id = NextUserId, !.created_at = now]}
            /\ Finish(w, [status |-> 201, message |-> "registered"])
    /\ UNCHANGED <<notes, nextNoteId, now, kept, served, route, sess, creds, user, note_id, note, payload>>

(***************************************************************************)
(* POST /login                                                             *)
(***************************************************************************)
Login(w) ==
    /\ pc[w] = "login"
    /\ \E email \in Emails, password \in Passwords :
         LET u == FindUser(email)
         IN /\ payload' = [payload EXCEPT ![w] = [NoPayload EXCEPT !.email = email, !.password = password]]
            /\ IF u = NoUser \/ ~verify_password(password, u.password_hash)
               THEN Finish(w, HTTPException(401, "Invalid email or password"))
               ELSE Finish(w, [status |-> 200,
                               access_token |-> create_access_token(u.email, now),
                               token_type |-> "bearer"])
    /\ UNCHANGED <<users, notes, nextNoteId, now, kept, served, route, sess, creds, user, note_id, note>>

(***************************************************************************)
(* GET /notes                                                              *)
(***************************************************************************)
ListNotes(w) ==
    /\ pc[w] = "list_notes"
    /\ LET rows == ListForOwner(user[w].email)
       IN Finish(w, [status |-> 200, items |-> [i \in 1..Len(rows) |-> NoteOut(rows[i])]])
    /\ UNCHANGED <<users, notes, nextNoteId, now, kept, served, route, sess, creds, user, note_id, note, payload>>

(***************************************************************************)
(* POST /notes: INSERT and COMMIT, then db.refresh reads the row back.     *)
(***************************************************************************)
CreateNote(w) ==
    /\ pc[w] = "create_note"
    /\ \E title \in Titles, content \in Contents :
         LET row == [id |-> nextNoteId, owner_email |-> user[w].email,
                     title |-> title, content |-> content, created_at |-> now]
         IN /\ payload' = [payload EXCEPT ![w] = [NoPayload EXCEPT !.title = title, !.content = content]]
            /\ notes' = notes \cup {row}
            /\ note' = [note EXCEPT ![w] = row]
    /\ nextNoteId' = nextNoteId + 1
    /\ pc' = [pc EXCEPT ![w] = "create_refresh"]
    /\ UNCHANGED <<users, now, kept, served, route, sess, creds, user, note_id, resp>>

\* db.refresh(note): SELECT by primary key; it raises when the row is gone.
Refresh(w, code) ==
    /\ LET rows == {n \in notes : n.id = note[w].id}
       IN IF rows = {}
          THEN Finish(w, ServerError) /\ note' = note
          ELSE LET row == CHOOSE n \in rows : TRUE
               IN /\ Finish(w, [status |-> code, item |-> NoteOut(row)])
                  /\ note' = [note EXCEPT ![w] = row]
    /\ UNCHANGED <<users, notes, nextNoteId, now, kept, served, route, sess, creds, user, note_id, payload>>

CreateRefresh(w) ==
    /\ pc[w] = "create_refresh"
    /\ Refresh(w, 201)

(***************************************************************************)
(* PUT /notes/{note_id}: the owner-scoped SELECT; then the UPDATE and      *)
(* COMMIT; then db.refresh.  The unit of work writes the columns whose     *)
(* new value differs from the loaded one, and raises when the UPDATE       *)
(* matches no row.                                                         *)
(***************************************************************************)
\* The SELECT of update_note and delete_note, and the 404 when it finds nothing.
OwnedNote(w, next) ==
    /\ \E id \in NoteIds :
         LET n == FindNote(id, user[w].email)
         IN /\ note_id' = [note_id EXCEPT ![w] = id]
            /\ IF n = NoNote
               THEN Finish(w, HTTPException(404, "Note not found")) /\ note' = note
               ELSE /\ note' = [note EXCEPT ![w] = n]
                    /\ pc' = [pc EXCEPT ![w] = next]
                    /\ resp' = resp
    /\ UNCHANGED <<users, notes, nextNoteId, now, kept, served, route, sess, creds, user, payload>>

UpdateNote(w) ==
    /\ pc[w] = "update_note"
    /\ OwnedNote(w, "update_commit")

\* The row after UPDATE notes SET <changed columns> WHERE id = loaded.id.
Flushed(row, loaded, title, content) ==
    [row EXCEPT !.title = IF title # loaded.title THEN title ELSE @,
                !.content = IF content # loaded.content THEN content ELSE @]

UpdateCommit(w) ==
    /\ pc[w] = "update_commit"
    /\ \E title \in Titles, content \in Contents :
         LET loaded == note[w]
             rows == {n \in notes : n.id = loaded.id}
             dirty == title # loaded.title \/ content # loaded.content
         IN /\ payload' = [payload EXCEPT ![w] = [NoPayload EXCEPT !.title = title, !.content = content]]
            /\ note' = [note EXCEPT ![w] = [loaded EXCEPT !.title = title, !.content = content]]
            /\ IF dirty /\ rows = {}
               THEN Finish(w, ServerError) /\ notes' = notes
               ELSE /\ notes' = (notes \ rows) \cup {Flushed(n, loaded, title, content) : n \in rows}
                    /\ pc' = [pc EXCEPT ![w] = "update_refresh"]
                    /\ resp' = resp
    /\ UNCHANGED <<users, nextNoteId, now, kept, served, route, sess, creds, user, note_id>>

UpdateRefresh(w) ==
    /\ pc[w] = "update_refresh"
    /\ Refresh(w, 200)

(***************************************************************************)
(* DELETE /notes/{note_id}: the owner-scoped SELECT, then DELETE + COMMIT. *)
(* A DELETE that matches no row is not an error.                           *)
(***************************************************************************)
DeleteNote(w) ==
    /\ pc[w] = "delete_note"
    /\ OwnedNote(w, "delete_commit")

DeleteCommit(w) ==
    /\ pc[w] = "delete_commit"
    /\ notes' = {n \in notes : n.id # note[w].id}
    /\ Finish(w, [status |-> 200, message |-> "deleted"])
    /\ UNCHANGED <<users, nextNoteId, now, kept, served, route, sess, creds, user, note_id, note, payload>>

(***************************************************************************)
(* The wall clock (datetime.utcnow) moves forward.                         *)
(***************************************************************************)
Tick ==
    /\ \E d \in ClockSteps : now + d <= MaxTime /\ now' = now + d
    /\ UNCHANGED <<users, notes, nextNoteId, kept, served, pc, route, sess, creds, user, note_id, note, resp, payload>>

(***************************************************************************)
(* Spec: any requests, served concurrently by the execution contexts,      *)
(* within one minute of the clock.                                         *)
(***************************************************************************)
Next ==
    \/ \E w \in Workers : GetDb(w)
    \/ \E w \in Workers : RequireUser(w)
    \/ \E w \in Workers : Register(w)
    \/ \E w \in Workers : RegisterCommit(w)
    \/ \E w \in Workers : Login(w)
    \/ \E w \in Workers : ListNotes(w)
    \/ \E w \in Workers : CreateNote(w)
    \/ \E w \in Workers : CreateRefresh(w)
    \/ \E w \in Workers : UpdateNote(w)
    \/ \E w \in Workers : UpdateCommit(w)
    \/ \E w \in Workers : UpdateRefresh(w)
    \/ \E w \in Workers : DeleteNote(w)
    \/ \E w \in Workers : DeleteCommit(w)
    \/ \E w \in Workers : Close(w)

Spec == Init /\ [][Next]_vars

(***************************************************************************)
(* SpecClock: clients that register, log in, keep the token and list their *)
(* notes with it while time passes.                                        *)
(***************************************************************************)
NextClock ==
    \/ Tick
    \/ \E w \in Workers : GetDbKept(w)
    \/ \E w \in Workers : RequireUser(w)
    \/ \E w \in Workers : Register(w)
    \/ \E w \in Workers : RegisterCommit(w)
    \/ \E w \in Workers : Login(w)
    \/ \E w \in Workers : ListNotes(w)
    \/ \E w \in Workers : CloseKept(w)

SpecClock == Init /\ [][NextClock]_vars

(***************************************************************************)
(* Properties.  "w steps from stage s" is a step that moves pc[w] away     *)
(* from s: only w's own handler does that.                                 *)
(***************************************************************************)
StepsFrom(w, stage) == pc[w] = stage /\ pc'[w] # stage

TablesUnchanged == users' = users /\ notes' = notes /\ nextNoteId' = nextNoteId

\* C1: an update or delete of a note id by a user who owns no note of that
\* id -- the id of another user's note, or of no note at all -- is answered
\* 404 "Note not found" in both cases and leaves every note and user as it was.
C1_NotOwnedIsNotFound ==
    [][\A w \in Workers :
         /\ (\/ StepsFrom(w, "update_note") \/ StepsFrom(w, "delete_note")) =>
              LET mine == {n \in notes : n.id = note_id'[w] /\ n.owner_email = user[w].email}
              IN mine = {} =>
                   /\ pc'[w] = "respond"
                   /\ resp'[w] = [status |-> 404, detail |-> "Note not found"]
                   /\ TablesUnchanged
         /\ (StepsFrom(w, "respond") /\ resp[w].status = 404) =>
              pc'[w] = "idle" /\ TablesUnchanged]_vars

\* C1 witness: a 404 for the id of an existing note of another user.
C1_Witness ==
    \E w \in Workers :
      /\ pc[w] = "respond"
      /\ route[w] \in {"update_note", "delete_note"}
      /\ resp[w] = [status |-> 404, detail |-> "Note not found"]
      /\ \E n \in notes : n.id = note_id[w] /\ n.owner_email # user[w].email

\* C2: a register for an email that is already registered is answered 409,
\* adds no user and changes no stored hash; a register whose INSERT finds no
\* row for the email adds exactly that user and is answered 201 "registered".
C2_SecondRegisterConflicts ==
    [][\A w \in Workers :
         /\ StepsFrom(w, "register") =>
              IF \E u \in users : u.email = payload'[w].email
              THEN /\ pc'[w] = "respond"
                   /\ resp'[w] = [status |-> 409, detail |-> "Email already registered"]
                   /\ users' = users
              ELSE pc'[w] = "register_commit" /\ users' = users
         /\ (StepsFrom(w, "register_commit")
               /\ ~\E u \in users : u.email = payload[w].email) =>
              /\ resp'[w] = [status |-> 201, message |-> "registered"]
              /\ \E u \in users' :
                   /\ u.email = payload[w].email
                   /\ u.password_hash = hash_password(payload[w].password)
                   /\ users' = users \cup {u}]_vars

\* C2 witness: a 409 for a registered email, asked with another password,
\* and the stored hash is still the one of the first registration.
C2_Witness ==
    \E w \in Workers :
      /\ pc[w] = "respond"
      /\ route[w] = "register"
      /\ resp[w].status = 409
      /\ \E u \in users : /\ u.email = payload[w].email
                          /\ u.password_hash # hash_password(payload[w].password)

\* C3: GET /notes answers 200 with exactly the notes that exist at that
\* moment and are owned by the email of the token's subject, each once, in
\* strictly descending id order.
C3_ListOwnedDescending ==
    [][\A w \in Workers :
         StepsFrom(w, "list_notes") =>
           LET items == resp'[w].items
               mine == {n \in notes : n.owner_email = creds[w].sub}
           IN /\ resp'[w].status = 200
              /\ user[w].email = creds[w].sub
              /\ Len(items) = Cardinality(mine)
              /\ \A n \in mine : \E i \in 1..Len(items) : items[i] = NoteOut(n)
              /\ \A i, j \in 1..Len(items) : i < j => items[i].id > items[j].id
              /\ TablesUnchanged]_vars

\* C3 witness: a non-empty list was returned while another owner has a note.
C3_Witness ==
    \E w \in Workers :
      /\ pc[w] = "respond"
      /\ route[w] = "list_notes"
      /\ resp[w].status = 200
      /\ Len(resp[w].items) >= 1
      /\ \E n \in notes : n.owner_email # user[w].email

\* C4: on a protected route, a token that is malformed, signed with another
\* key, past its expiry or without subject, or whose subject is no user, is
\* answered 401 straight from require_user; the request then only closes,
\* and the tables are as they were.
C4_RejectedTokenRunsNoHandler ==
    [][\A w \in Workers :
         /\ StepsFrom(w, "require_user") =>
              LET t == creds[w]
                  rejected == \/ t.fmt # "jwt"
                              \/ t.key # SECRET_KEY
                              \/ now > t.exp
                              \/ t.sub = ""
                              \/ ~\E u \in users : u.email = t.sub
              IN /\ route[w] \in Protected
                 /\ rejected => /\ pc'[w] = "respond"
                                /\ resp'[w].status = 401
                                /\ TablesUnchanged
         /\ (StepsFrom(w, "respond") /\ resp[w].status = 401) =>
              pc'[w] = "idle" /\ TablesUnchanged]_vars

\* C4 witness: a well-signed, unexpired token for an email that is no user.
C4_Witness ==
    \E w \in Workers :
      /\ pc[w] = "respond"
      /\ route[w] \in Protected
      /\ resp[w] = [status |-> 401, detail |-> "User not found"]
      /\ creds[w].key = SECRET_KEY /\ creds[w].exp >= now

\* C5: the token of a login at time t has the login's email as subject and
\* expires at t + 60; presented at a time up to and including its expiry it
\* authenticates as that email, and at any later time it is answered 401
\* "Invalid or expired token".
C5_TokenRoundTripUntilExpiry ==
    [][\A w \in Workers :
         /\ (StepsFrom(w, "login") /\ resp'[w].status = 200) =>
              /\ payload'[w].email # ""
              /\ resp'[w].access_token.sub = payload'[w].email
              /\ resp'[w].access_token.exp = now + ACCESS_TOKEN_EXPIRE_MINUTES
         /\ (StepsFrom(w, "require_user") /\ creds[w].key = SECRET_KEY /\ creds[w].sub # "") =>
              IF now <= creds[w].exp
              THEN pc'[w] = route[w] /\ user'[w].email = creds[w].sub
              ELSE /\ pc'[w] = "respond"
                   /\ resp'[w] = [status |-> 401, detail |-> "Invalid or expired token"]]_vars

\* C5 witness: a token kept from a login is refused after its expiry.
C5_Witness ==
    \E w \in Workers :
      /\ pc[w] = "respond"
      /\ creds[w] = kept
      /\ kept.key = SECRET_KEY
      /\ now = kept.exp + 1
      /\ resp[w] = [status |-> 401, detail |-> "Invalid or expired token"]

\* C6: login answers 200 with a token whose subject is the stored email
\* exactly when the email is registered and the password matches its hash;
\* otherwise it answers the one response 401 "Invalid email or password",
\* whether the email is unknown or the password wrong.
C6_LoginFailuresIndistinguishable ==
    [][\A w \in Workers :
         StepsFrom(w, "login") =>
           LET matching == {u \in users : /\ u.email = payload'[w].email
                                          /\ u.password_hash = hash_password(payload'[w].password)}
           IN /\ pc'[w] = "respond"
              /\ TablesUnchanged
              /\ IF matching # {}
                 THEN /\ resp'[w].status = 200
                      /\ \E u \in matching : resp'[w].access_token.sub = u.email
                      /\ resp'[w].access_token.key = SECRET_KEY
                 ELSE resp'[w] = [status |-> 401, detail |-> "Invalid email or password"]]_vars

\* C6 witness: two logins were refused, one for an unknown email and one for
\* a wrong password, with the same response.
C6_Witness ==
    \E w, v \in Workers :
      /\ pc[w] = "respond" /\ route[w] = "login"
      /\ pc[v] = "respond" /\ route[v] = "login"
      /\ ~\E u \in users : u.email = payload[w].email
      /\ \E u \in users : u.email = payload[v].email
      /\ resp[w].status = 401
      /\ resp[w] = resp[v]

\* C7: there is never more than one user row for an email, and every
\* register request ends in 201 (it created the user) or in 409 (the email
\* was taken), also when two of them looked the email up before either insert.
C7_RegisterEndsCreatedOrConflict ==
    /\ \A u, v \in users : u.email = v.email => u = v
    /\ \A w \in Workers :
         (route[w] = "register" /\ pc[w] = "respond") => resp[w].status \in {201, 409}

\* C8: a request holds an open session from its arrival to its response and
\* none once it has completed, whatever its outcome; with no request in
\* flight no session is open.
C8_SessionReleasedOnEveryPath ==
    /\ \A w \in Workers : pc[w] = "idle" => sess[w] = "closed"
    /\ \A w \in Workers : pc[w] # "idle" => sess[w] = "open"
    /\ (\A w \in Workers : pc[w] = "idle") =>
         Cardinality({w \in Workers : sess[w] = "open"}) = 0

\* C8 witness: a request that ended in an error of a store call has
\* completed and its session is closed.
C8_Witness ==
    \E w \in Workers :
      /\ pc[w] = "idle"
      /\ resp[w].status = 500
      /\ sess[w] = "closed"

\* C9: the UPDATE of a successful update leaves the note with the request's
\* title and content and changes nothing else (not its id, owner_email or
\* created_at, no other note, no user); the DELETE of a successful delete
\* removes that note and nothing else.
C9_UpdateWritesRequestValues ==
    [][\A w \in Workers :
         /\ (StepsFrom(w, "update_commit") /\ pc'[w] = "update_refresh") =>
              /\ users' = users
              /\ \A n \in notes : n.id # note[w].id => n \in notes'
              /\ \A m \in notes' : m.id # note[w].id => m \in notes
              /\ \A m \in notes' : m.id = note[w].id =>
                   /\ m.title = payload'[w].title
                   /\ m.content = payload'[w].content
                   /\ m.owner_email = note[w].owner_email
                   /\ m.created_at = note[w].created_at
         /\ StepsFrom(w, "delete_commit") =>
              /\ users' = users
              /\ notes' = {n \in notes : n.id # note[w].id}]_vars

\* What does hold of the write of an update: no other row and no other
\* column changes, and each of title and content ends as the request's value
\* or as the value stored just before the write.
UpdateFrame ==
    [][\A w \in Workers :
         (StepsFrom(w, "update_commit") /\ pc'[w] = "update_refresh") =>
           /\ users' = users
           /\ \A n \in notes : n.id # note[w].id => n \in notes'
           /\ \A m \in notes' : m.id # note[w].id => m \in notes
           /\ \A m \in notes' : m.id = note[w].id =>
                \E n \in notes :
                  /\ n.id = m.id
                  /\ m.owner_email = n.owner_email /\ m.created_at = n.created_at
                  /\ m.title \in {payload'[w].title, n.title}
                  /\ m.content \in {payload'[w].content, n.content}]_vars

\* C10: every note's owner_email is the email of a user, and no step removes
\* or alters a user row.
C10_NotesHaveOwners ==
    /\ [](\A n \in notes : \E u \in users : u.email = n.owner_email)
    /\ [][users \subseteq users']_vars

\* C10 witness: notes of two different owners exist.
C10_Witness ==
    \E n, m \in notes : n.owner_email # m.owner_email

====
